---- MODULE Spec2Model ----
(***************************************************************************)
(* Model of angular-build's vendor-bundle gatekeeper                       *)
(* (TryBundleDllWebpackPlugin) and of the configuration pipeline           *)
(* (getWebpackConfig).                                                     *)
(*                                                                         *)
(* Spec        the gatekeeper: hook invocations of one plugin instance,    *)
(*             each a promise chain stat -> then -> then -> catch.         *)
(* SpecConfig  getWebpackConfig: one invocation, stepping through the      *)
(*             option checks, the config read, schema validation, the lib  *)
(*             loop, the app loop and the final check.                     *)
(* SpecFilter  getWebpackConfig under the CLI's --filter, over projects    *)
(*             named like the reserved groups, nameless or skip-flagged.   *)
(* SpecOptions getWebpackConfig's arguments: argv, env and WEBPACK_ENV.    *)
(* SpecAssets  parseAssetEntry: one call on strings and objects, the       *)
(*             caller's objects held by reference.                         *)
(* SpecDll     getAppDllWebpackConfig: one call, the vendor-bundle builder *)
(*             and the merge of the four fragments.                        *)
(* SpecStyles  getStylesConfigPartial: one call.                           *)
(***************************************************************************)
EXTENDS Integers, Sequences, FiniteSets, TLC

VARIABLES
  inv,            \* gatekeeper: one record per tryDll invocation
  cpc,            \* getWebpackConfig: position in the function
  outcome,        \* getWebpackConfig: "none", "returned" or the error thrown
  fromCli,        \* fromAngularBuildCli (line 122)
  filterNames,    \* filterNames (lines 128, 169)
  cleanOutDirs,   \* cleanOutDirs (lines 127, 166)
  environment,    \* environment (lines 139-163): [dll, options]
  libConfigs,     \* angularBuildConfig.libs (line 242)
  appConfigs,     \* angularBuildConfig.apps (line 243)
  filtered,       \* filteredLibConfigs / filteredAppConfigs of the running loop
  idx,            \* the loop variable i (1-based here)
  webpackConfigs, \* webpackConfigs (line 264)
  touched,        \* projects handed to the per-project helpers, in call order
  ctxInit,        \* AngularBuildContext.init has been called (line 249)
  schemaErrors,   \* errors.length of validateSchema (line 221)
  thrownAt,       \* where the error was thrown ("" while none)
  call,           \* the arguments and WEBPACK_ENV of the invocation, as Invoke saw them
  apc,            \* parseAssetEntry: "idle" before the call, "done" after it
  baseDir,        \* parseAssetEntry's baseDir
  assetEntries,   \* parseAssetEntry's assetEntries, as the caller holds it
  callerHeap,     \* the caller's objects before the call, by reference
  heap,           \* the objects after the call, by reference
  parsed,         \* the returned array: references into heap
  assetError,     \* "none" or the error thrown by parseAssetEntry
  dpc,            \* getAppDllWebpackConfig: "idle" before the call, "done" after it
  dllArgs,        \* its project config and the fragments of the other builders
  dllPartial,     \* what getAppDllWebpackConfigPartial returned: <<>> or <<fragment>>
  dllReturn,      \* what getAppDllWebpackConfig returned: [kind, config]
  dllError,       \* the error thrown: [error, at], error "none" without one
  spc,            \* getStylesConfigPartial: "idle" before the call, "done" after it
  stylesArgs,     \* its project config and environment
  stylesReturn    \* the fragment it returned: [entry, plugins]

gateVars == <<inv>>
cfgVars == <<cpc, outcome, fromCli, filterNames, cleanOutDirs, environment,
             libConfigs, appConfigs, filtered, idx, webpackConfigs, touched, ctxInit,
             schemaErrors, thrownAt, call>>
assetVars == <<apc, baseDir, assetEntries, callerHeap, heap, parsed, assetError>>
dllVars == <<dpc, dllArgs, dllPartial, dllReturn, dllError>>
stylesVars == <<spc, stylesArgs, stylesReturn>>
vars == <<inv, cpc, outcome, fromCli, filterNames, cleanOutDirs, environment,
          libConfigs, appConfigs, filtered, idx, webpackConfigs, touched, ctxInit,
          schemaErrors, thrownAt, call, apc, baseDir, assetEntries, callerHeap, heap,
          parsed, assetError, dpc, dllArgs, dllPartial, dllReturn, dllError, spc,
          stylesArgs, stylesReturn>>

(***************************************************************************)
(* Bounds                                                                  *)
(***************************************************************************)
MaxInvocations == 2
MaxProjects == 3
MaxFilterProjects == 2
MaxLen == 3

(***************************************************************************)
(* Gatekeeper: TryBundleDllWebpackPlugin                                   *)
(***************************************************************************)

\* What fs.stat can hand to its callback: an error (the path is missing, or
\* cannot be read), or stats of a regular file or of something else.
StatOutcomes == {"ENOENT", "EACCES", "file", "dir"}

StatFailed(o) == o \in {"ENOENT", "EACCES"}

\* What webpackCompiler.run can hand to its callback: err, or stats with
\* errors, with warnings only, or clean.
RunOutcomes == {"err", "errors", "warnings", "clean"}

hasErrors(o) == o = "errors"

Resolved(v) == [st |-> "fulfilled", val |-> v]

Rejected(r) == [st |-> "rejected", val |-> r]

Pending == [st |-> "pending", val |-> "undefined"]

\* The hooks apply() registers tryDll on.
apply == {"run", "watch-run"}

\* checkManifestFile: the promise settled by fs.stat's callback.
checkManifestFile(o) ==
  IF StatFailed(o) THEN Rejected(o)
  ELSE Resolved(IF o = "file" THEN "true" ELSE "false")

existsNever(p) == FALSE

\* The first then-handler's branch: exists is the value the check resolved to.
exists(p) == p.val = "true"

\* The run callback: the promise returned by the first then-handler.
callbackSkipsErr(o) ==
  IF hasErrors(o) \/ o = "err" THEN Rejected("undefined") ELSE Resolved("undefined")

callback(o) ==
  IF o = "err" THEN Rejected("CompilerError")
  ELSE IF hasErrors(o) THEN Rejected("undefined")
  ELSE Resolved("undefined")

\* webpackCompiler.run(callback): the number of bundler runs started so far.
runTwice(r) == r + 2

run(r) == r + 1

\* next's argument is an error unless it is absent or undefined.
IsError(a) == a \notin {"none", "undefined"}

IdleInvocation ==
  [hook |-> "none", pc |-> "idle", promise |-> Pending, stat |-> "none",
   bundler |-> "none", runs |-> 0, calls |-> <<>>, nextThrew |-> FALSE]

Invocations == 1..MaxInvocations

\* compiler.plugin('run' | 'watch-run', (c, next) => this.tryDll(next)):
\* tryDll starts checkManifestFile, which issues fs.stat.
tryDll(i, hook) ==
  /\ hook \in apply
  /\ inv[i].pc = "idle"
  /\ \A j \in Invocations : j < i => inv[j].pc # "idle"
  /\ inv' = [inv EXCEPT ![i].hook = hook, ![i].pc = "stat"]
  /\ UNCHANGED <<cfgVars, assetVars, dllVars, stylesVars>>

\* fs.stat's callback fires.
StatCallback(i, o) ==
  /\ inv[i].pc = "stat"
  /\ inv' = [inv EXCEPT ![i].stat = o,
                        ![i].promise = checkManifestFile(o),
                        ![i].pc = "then"]
  /\ UNCHANGED <<cfgVars, assetVars, dllVars, stylesVars>>

\* .then((exists) => ...): skipped when the check rejected; resolves at once
\* when the manifest exists; otherwise creates the compiler and runs it.
\* how: "ok", or the call that throws.
ThenExists(i, how) ==
  /\ inv[i].pc = "then"
  /\ IF inv[i].promise.st = "rejected"
     THEN /\ how = "ok"
          /\ inv' = [inv EXCEPT ![i].pc = "thenNext"]
     ELSE IF exists(inv[i].promise)
     THEN /\ how = "ok"
          /\ inv' = [inv EXCEPT ![i].promise = Resolved("null"), ![i].pc = "thenNext"]
     ELSE CASE how = "webpackThrows" ->
                 inv' = [inv EXCEPT ![i].promise = Rejected("ThrownError"),
                                    ![i].bundler = "webpackThrew",
                                    ![i].pc = "thenNext"]
            [] how = "runThrows" ->
                 inv' = [inv EXCEPT ![i].promise = Rejected("ThrownError"),
                                    ![i].bundler = "runThrew",
                                    ![i].runs = run(@),
                                    ![i].pc = "thenNext"]
            [] OTHER ->
                 inv' = [inv EXCEPT ![i].promise = Pending,
                                    ![i].bundler = "running",
                                    ![i].runs = run(@),
                                    ![i].pc = "running"]
  /\ UNCHANGED <<cfgVars, assetVars, dllVars, stylesVars>>

\* The bundler calls back.
RunCallback(i, o) ==
  /\ inv[i].pc = "running"
  /\ inv' = [inv EXCEPT ![i].bundler = o,
                        ![i].promise = callback(o),
                        ![i].pc = "thenNext"]
  /\ UNCHANGED <<cfgVars, assetVars, dllVars, stylesVars>>

\* .then(() => next()): runs on fulfilment only; next itself may throw.
ThenNext(i, throws) ==
  /\ inv[i].pc = "thenNext"
  /\ IF inv[i].promise.st = "fulfilled"
     THEN inv' = [inv EXCEPT ![i].calls = Append(@, "none"),
                             ![i].nextThrew = throws,
                             ![i].promise = IF throws THEN Rejected("NextError")
                                            ELSE Resolved("undefined"),
                             ![i].pc = "catch"]
     ELSE /\ throws = FALSE
          /\ inv' = [inv EXCEPT ![i].pc = "catch"]
  /\ UNCHANGED <<cfgVars, assetVars, dllVars, stylesVars>>

\* .catch((err) => next(err)): runs on rejection only, with the reason.
CatchNext(i) ==
  /\ inv[i].pc = "catch"
  /\ IF inv[i].promise.st = "rejected"
     THEN inv' = [inv EXCEPT ![i].calls = Append(@, inv[i].promise.val),
                             ![i].pc = "done"]
     ELSE inv' = [inv EXCEPT ![i].pc = "done"]
  /\ UNCHANGED <<cfgVars, assetVars, dllVars, stylesVars>>

(***************************************************************************)
(* Configuration pipeline: getWebpackConfig                                *)
(***************************************************************************)

\* Config paths an invocation is given, and what the path checks answer.
ConfigPaths ==
  {"", "angular-build.txt", "missing.json", "angular-build.json", "Angular-Build.JSON"}

\* /\.json$/i.test(configPath)
IsJsonPathAny(path) == TRUE

IsJsonPath(path) == path \in {"missing.json", "angular-build.json", "Angular-Build.JSON"}

\* existsSync(configPath)
existsSync(path) == path \in {"angular-build.txt", "angular-build.json", "Angular-Build.JSON"}

\* Raw filter names, as given in argv.filter or env.options.filter. A filter
\* is a string or an array of strings: [isArray, items], a string being its
\* one item and an absent filter having none.
ArrayFilter(items) == [isArray |-> TRUE, items |-> items]

StringFilter(str) == [isArray |-> FALSE, items |-> <<str>>]

NoFilter == [isArray |-> FALSE, items |-> <<>>]

\* The filter is truthy: an array, or a string that is not empty.
FilterGiven(filter) ==
  filter.isArray \/ (filter.items # <<>> /\ filter.items[1] # "")

\* filterName.trim()
trim(t) == IF t = " a" THEN "a" ELSE t

Includes(s, x) == \E k \in DOMAIN s : s[k] = x

\* The forEach of prepareFilterNames: empty names dropped, names trimmed,
\* duplicates dropped, order kept.
RECURSIVE prepareFilterNamesFrom(_, _)
prepareFilterNamesFrom(items, acc) ==
  IF items = <<>> THEN acc
  ELSE LET t == trim(Head(items))
       IN prepareFilterNamesFrom(Tail(items),
            IF Head(items) # "" /\ t # "" /\ ~Includes(acc, t) THEN Append(acc, t) ELSE acc)

\* prepareFilterNames: an array goes through the forEach; a string that is
\* not blank is pushed as it is.
prepareFilterNames(filter) ==
  IF ~FilterGiven(filter) THEN <<>>
  ELSE IF filter.isArray THEN prepareFilterNamesFrom(filter.items, <<>>)
  ELSE IF trim(filter.items[1]) # "" THEN <<filter.items[1]>>
  ELSE <<>>

Indices(s) == [k \in 1..Len(s) |-> k]

\* A declared project: its name, its skip flag and its envOverrides blocks
\* (each a key and the skip value the block sets).
Project(name, skip, ov) == [name |-> name, skip |-> skip, envOverrides |-> ov]

Projects ==
  { Project("a", FALSE, <<>>),
    Project("A", FALSE, <<>>),
    Project("a", TRUE, <<[key |-> "dll", skip |-> FALSE]>>) }

\* The override keys that are truthy in the environment.
ActiveKey(env, key) ==
  \/ key = "dll" /\ env.dll
  \/ key = "options" /\ env.options

\* applyProjectConfigWithEnvOverrides: the blocks whose key is active are
\* merged in declared order, later blocks winning.
RECURSIVE applyOverrides(_, _, _)
applyOverrides(p, ov, env) ==
  IF ov = <<>> THEN p
  ELSE applyOverrides(IF ActiveKey(env, Head(ov).key)
                      THEN [p EXCEPT !.skip = Head(ov).skip] ELSE p,
                      Tail(ov), env)

applyProjectConfigWithEnvOverrides(p, env) == applyOverrides(p, p.envOverrides, env)

\* The callback of libConfigs.filter (lines 268-272).
LibSelectedNamedOnly(p, names) ==
  Len(names) > 0 /\ (Includes(names, "libs") \/ (p.name # "" /\ Includes(names, p.name)))

LibSelected(p, names) ==
  \/ Len(names) = 0
  \/ Len(names) > 0 /\ (Includes(names, "libs") \/ (p.name # "" /\ Includes(names, p.name)))

\* The callback of appConfigs.filter (lines 310-314).
AppSelectedByGroupOnly(p, names) ==
  \/ Len(names) = 0
  \/ Len(names) > 0 /\ Includes(names, "apps")

AppSelected(p, names) ==
  \/ Len(names) = 0
  \/ Len(names) > 0 /\ (Includes(names, "apps") \/ (p.name # "" /\ Includes(names, p.name)))

\* filterNames.length && filterNames.filter(n => n === group).length === filterNames.length
OnlyGroupAny(names, group) == Includes(names, group)

OnlyGroup(names, group) ==
  Len(names) # 0 /\ Len(SelectSeq(names, LAMBDA n : n = group)) = Len(names)

\* filteredLibConfigs (lines 267-277), as positions in libConfigs.
FilteredLibConfigs(libs, names) ==
  IF OnlyGroup(names, "apps") THEN <<>>
  ELSE SelectSeq(Indices(libs), LAMBDA k : LibSelected(libs[k], names))

\* filteredAppConfigs (lines 309-319), as positions in appConfigs.
FilteredAppConfigs(apps, names) ==
  IF OnlyGroup(names, "libs") THEN <<>>
  ELSE SelectSeq(Indices(apps), LAMBDA k : AppSelected(apps[k], names))

\* existsSchemaPath after the two lookups (lines 192-204); found is the set of
\* candidate locations (1, 2, 3) where schema.json exists.
ExistsSchemaPath(found) == 1 \in found \/ 2 \in found

\* errors.length (line 222)
HasViolationsNever(n) == FALSE

HasViolations(n) == n # 0

\* webpackConfigs.push(wpConfig)
PushFront(cfgs, c) == <<c>> \o cfgs

Push(cfgs, c) == Append(cfgs, c)

\* webpackConfigs.length === 0 (line 362)
NoneAvailableNever(cfgs) == FALSE

NoneAvailable(cfgs) == Len(cfgs) = 0

\* getAppDllWebpackConfig: an app that is no vendor-bundle producer gets {}.
getAppDllWebpackConfig(isDll, projectType) ==
  IF ~isDll \/ projectType # "app" THEN "empty" ELSE "merged"

\* getLibWebpackConfig, getAppWebpackConfig: the merged configuration.
getLibWebpackConfig == "merged"

getAppWebpackConfig == "merged"

\* if (wpConfig)
Truthy(c) == c # "null"

Throw(kind, at) ==
  /\ outcome' = kind
  /\ thrownAt' = at
  /\ cpc' = "done"

NoOptions == [present |-> FALSE, filter |-> NoFilter, clean |-> FALSE]

WebpackEnvUnset ==
  [kind |-> "unset",
   value |-> [given |-> FALSE, dll |-> FALSE, options |-> NoOptions]]

\* Line 154: the options are taken from the environment only without the CLI.
ExtractOptionsAlways(cli, env) == env.options.present

ExtractOptions(cli, env) == ~cli /\ env.options.present

\* Lines 140-151: the environment the function works with. Without the CLI
\* and without an env argument, a set WEBPACK_ENV is parsed and used if it is
\* an object.
NoEnv == [given |-> FALSE, dll |-> FALSE, options |-> NoOptions]

Consulted(cli, env, webpackEnv) == ~cli /\ ~env.given /\ webpackEnv.kind # "unset"

EffectiveEnv(cli, env, webpackEnv) ==
  IF Consulted(cli, env, webpackEnv) /\ webpackEnv.kind = "object"
  THEN webpackEnv.value
  ELSE env

\* Lines 114-181: the option handling and the checks of configPath.
\* argv: [fromAngularBuildCli, filter, clean]; env: [given, dll, options],
\* options being [present, filter, clean]; webpackEnv: [kind, value], the
\* kind being "unset", "malformed" (JSON.parse throws), "scalar" or "object".
GetWebpackConfig(configPath, argv, env, webpackEnv) ==
  /\ cpc = "idle"
  /\ libConfigs' = <<>>
  /\ appConfigs' = <<>>
  /\ filtered' = <<>>
  /\ idx' = 0
  /\ webpackConfigs' = <<>>
  /\ touched' = <<>>
  /\ ctxInit' = FALSE
  /\ schemaErrors' = 0
  /\ IF configPath = ""
     THEN /\ Throw("InvalidOptionError", "configPath required")
          /\ fromCli' = FALSE
          /\ filterNames' = <<>>
          /\ cleanOutDirs' = FALSE
          /\ environment' = [dll |-> FALSE, options |-> FALSE]
     ELSE LET cli == argv.fromAngularBuildCli
              fromArgv == IF cli /\ FilterGiven(argv.filter)
                          THEN prepareFilterNames(argv.filter) ELSE <<>>
          IN /\ fromCli' = cli
             /\ IF Consulted(cli, env, webpackEnv) /\ webpackEnv.kind = "malformed"
                THEN /\ Throw("SyntaxError", "JSON.parse")
                     /\ cleanOutDirs' = (cli /\ argv.clean)
                     /\ filterNames' = fromArgv
                     /\ environment' = [dll |-> FALSE, options |-> FALSE]
                ELSE LET e == EffectiveEnv(cli, env, webpackEnv)
                         extract == ExtractOptions(cli, e)
                     IN /\ cleanOutDirs' = ((cli /\ argv.clean) \/ (extract /\ e.options.clean))
                        /\ filterNames' =
                             IF extract /\ FilterGiven(e.options.filter)
                             THEN prepareFilterNames(e.options.filter)
                             ELSE fromArgv
                        /\ environment' = [dll |-> e.dll,
                                           options |-> (e.options.present /\ ~extract)]
                        /\ IF ~IsJsonPath(configPath)
                           THEN Throw("InvalidOptionError", "not json")
                           ELSE IF ~existsSync(configPath)
                           THEN Throw("InvalidOptionError", "not found")
                           ELSE /\ cpc' = "read"
                                /\ outcome' = "none"
                                /\ thrownAt' = ""
  /\ UNCHANGED <<gateVars, assetVars, dllVars, stylesVars>>

\* An invocation whose arguments are kept for the claims about them.
Invoke(configPath, argv, env, webpackEnv) ==
  /\ GetWebpackConfig(configPath, argv, env, webpackEnv)
  /\ call' = [configPath |-> configPath, argv |-> argv, env |-> env,
              webpackEnv |-> webpackEnv]

\* Lines 183-189: readJsonSync.
ReadConfig(readable, libs, apps) ==
  /\ cpc = "read"
  /\ IF ~readable
     THEN /\ Throw("InvalidConfigError", "read")
          /\ UNCHANGED <<libConfigs, appConfigs>>
     ELSE /\ libConfigs' = libs
          /\ appConfigs' = apps
          /\ cpc' = "schema"
          /\ UNCHANGED <<outcome, thrownAt>>
  /\ UNCHANGED <<fromCli, filterNames, cleanOutDirs, environment, filtered, idx,
                 webpackConfigs, touched, ctxInit, schemaErrors>>
  /\ UNCHANGED <<gateVars, call, assetVars, dllVars, stylesVars>>

\* Lines 191-233: the schema lookup and validateSchema.
ValidateSchema(found, errors) ==
  /\ cpc = "schema"
  /\ IF ~ExistsSchemaPath(found)
     THEN /\ Throw("InternalError", "schema missing")
          /\ UNCHANGED schemaErrors
     ELSE /\ schemaErrors' = errors
          /\ IF HasViolations(errors)
             THEN Throw("InvalidConfigError", "schema")
             ELSE /\ cpc' = "context"
                  /\ UNCHANGED <<outcome, thrownAt>>
  /\ UNCHANGED <<fromCli, filterNames, cleanOutDirs, environment, libConfigs, appConfigs,
                 filtered, idx, webpackConfigs, touched, ctxInit>>
  /\ UNCHANGED <<gateVars, call, assetVars, dllVars, stylesVars>>

\* Lines 235-262: defaults, the no-project check and AngularBuildContext.init.
PrepareContext ==
  /\ cpc = "context"
  /\ IF Len(appConfigs) = 0 /\ Len(libConfigs) = 0
     THEN /\ Throw("InvalidConfigError", "no project declared")
          /\ UNCHANGED ctxInit
     ELSE /\ ctxInit' = TRUE
          /\ cpc' = "libs"
          /\ UNCHANGED <<outcome, thrownAt>>
  /\ UNCHANGED <<fromCli, filterNames, cleanOutDirs, environment, libConfigs, appConfigs,
                 filtered, idx, webpackConfigs, touched, schemaErrors>>
  /\ UNCHANGED <<gateVars, call, assetVars, dllVars, stylesVars>>

\* Lines 266-279: the lib filter.
FilterLibs ==
  /\ cpc = "libs"
  /\ LET f == IF Len(libConfigs) > 0 THEN FilteredLibConfigs(libConfigs, filterNames)
              ELSE <<>>
     IN /\ filtered' = f
        /\ idx' = 1
        /\ cpc' = IF Len(f) > 0 THEN "libLoop" ELSE "apps"
  /\ UNCHANGED <<outcome, thrownAt, fromCli, filterNames, cleanOutDirs, environment,
                 libConfigs, appConfigs, webpackConfigs, touched, ctxInit, schemaErrors>>
  /\ UNCHANGED <<gateVars, call, assetVars, dllVars, stylesVars>>

\* if (clonedLibConfig.skip) / if (clonedAppConfig.skip)
SkippedNever(cloned) == FALSE

Skipped(cloned) == cloned.skip

\* One iteration of a project loop up to the builder call: the clone, the
\* overrides, the skip check, validation and defaults. how: "ok", or the
\* helper that throws.
Iterate(kind, declared, how, wpConfig, after) ==
  LET k == filtered[idx]
      cloned == applyProjectConfigWithEnvOverrides(declared[k], environment)
      last == idx = Len(filtered)
  IN /\ touched' = Append(touched, <<kind, k>>)
     /\ IF Skipped(cloned)
        THEN /\ how = "ok"
             /\ idx' = idx + 1
             /\ cpc' = IF last THEN after ELSE cpc
             /\ UNCHANGED <<outcome, thrownAt, webpackConfigs>>
        ELSE IF how = "validateThrows"
        THEN /\ Throw("InvalidConfigError", "validateProjectConfig")
             /\ UNCHANGED <<idx, webpackConfigs>>
        ELSE IF how = "builderThrows"
        THEN /\ Throw("InvalidConfigError", "builder")
             /\ UNCHANGED <<idx, webpackConfigs>>
        ELSE /\ webpackConfigs' =
                  IF Truthy(wpConfig)
                  THEN Push(webpackConfigs,
                            [kind |-> kind, project |-> k, config |-> wpConfig,
                             projectConfig |-> fromCli])
                  ELSE webpackConfigs
             /\ idx' = idx + 1
             /\ cpc' = IF last THEN after ELSE cpc
             /\ UNCHANGED <<outcome, thrownAt>>

\* Lines 280-304: one iteration of the lib loop.
LibIteration(how) ==
  /\ cpc = "libLoop"
  /\ idx <= Len(filtered)
  /\ Iterate("lib", libConfigs, how, getLibWebpackConfig, "apps")
  /\ UNCHANGED <<fromCli, filterNames, cleanOutDirs, environment, libConfigs, appConfigs,
                 filtered, ctxInit, schemaErrors>>
  /\ UNCHANGED <<gateVars, call, assetVars, dllVars, stylesVars>>

\* Lines 308-321: the app filter.
FilterApps ==
  /\ cpc = "apps"
  /\ LET f == IF Len(appConfigs) > 0 THEN FilteredAppConfigs(appConfigs, filterNames)
              ELSE <<>>
     IN /\ filtered' = f
        /\ idx' = 1
        /\ cpc' = IF Len(f) > 0 THEN "appLoop" ELSE "finish"
  /\ UNCHANGED <<outcome, thrownAt, fromCli, filterNames, cleanOutDirs, environment,
                 libConfigs, appConfigs, webpackConfigs, touched, ctxInit, schemaErrors>>
  /\ UNCHANGED <<gateVars, call, assetVars, dllVars, stylesVars>>

\* Lines 322-358: one iteration of the app loop; in a dll pass the builder is
\* getAppDllWebpackConfig. isDll: the project's computed _isDll.
AppIteration(how, isDll) ==
  /\ cpc = "appLoop"
  /\ idx <= Len(filtered)
  /\ environment.dll \/ ~isDll
  /\ Iterate("app", appConfigs, how,
             IF environment.dll THEN getAppDllWebpackConfig(isDll, "app")
             ELSE getAppWebpackConfig,
             "finish")
  /\ UNCHANGED <<fromCli, filterNames, cleanOutDirs, environment, libConfigs, appConfigs,
                 filtered, ctxInit, schemaErrors>>
  /\ UNCHANGED <<gateVars, call, assetVars, dllVars, stylesVars>>

\* Lines 362-366: the final check and the return.
Finish ==
  /\ cpc = "finish"
  /\ IF NoneAvailable(webpackConfigs)
     THEN Throw("InvalidConfigError", "no project available")
     ELSE /\ outcome' = "returned"
          /\ cpc' = "done"
          /\ UNCHANGED thrownAt
  /\ UNCHANGED <<fromCli, filterNames, cleanOutDirs, environment, libConfigs, appConfigs,
                 filtered, idx, webpackConfigs, touched, ctxInit, schemaErrors>>
  /\ UNCHANGED <<gateVars, call, assetVars, dllVars, stylesVars>>

\* The inputs of the pipeline's specification.
RECURSIVE SeqsUpTo(_, _)
SeqsUpTo(S, n) ==
  IF n = 0 THEN {<<>>}
  ELSE LET shorter == SeqsUpTo(S, n - 1)
       IN shorter \cup {Append(s, x) : s \in shorter, x \in S}

RawFilters ==
  {NoFilter, StringFilter(""), StringFilter("a"), StringFilter(" a")}
  \cup {ArrayFilter(f) :
          f \in { <<>>, <<"apps">>, <<"libs">>, <<"a">>, <<"libs", "a">>, <<"apps", "a">>,
                  <<"apps", "libs">>, <<" a", "", "a">>, <<"libs", "libs">> }}

ProjectLists == SeqsUpTo(Projects, MaxProjects)


\* The options reach the pipeline from the CLI's argv or, without the CLI,
\* from env.options.
ArgvInputs ==
  {[fromAngularBuildCli |-> TRUE, filter |-> f, clean |-> FALSE] : f \in RawFilters}
  \cup {[fromAngularBuildCli |-> FALSE, filter |-> NoFilter, clean |-> FALSE]}

EnvInputs(argv) ==
  IF argv.fromAngularBuildCli
  THEN {[given |-> TRUE, dll |-> d, options |-> NoOptions] : d \in BOOLEAN}
  ELSE {[given |-> TRUE, dll |-> d,
         options |-> [present |-> TRUE, filter |-> f, clean |-> FALSE]] :
          d \in BOOLEAN, f \in RawFilters}

NextConfig ==
  \/ \E path \in ConfigPaths, argv \in ArgvInputs :
       \E env \in EnvInputs(argv) :
         GetWebpackConfig(path, argv, env, WebpackEnvUnset) /\ UNCHANGED call
  \/ \E libs \in ProjectLists :
       \E apps \in SeqsUpTo(Projects, MaxProjects - Len(libs)) : ReadConfig(TRUE, libs, apps)
  \/ ReadConfig(FALSE, <<>>, <<>>)
  \/ \E found \in SUBSET {1, 2, 3}, errors \in 0..1 : ValidateSchema(found, errors)
  \/ PrepareContext
  \/ FilterLibs
  \/ \E how \in {"ok", "validateThrows", "builderThrows"} : LibIteration(how)
  \/ FilterApps
  \/ \E how \in {"ok", "validateThrows", "builderThrows"}, isDll \in BOOLEAN :
       AppIteration(how, isDll)
  \/ Finish

\* The inputs of the filter's specification: projects with and without a
\* name, named like a reserved group, skip-flagged, or skip-flagged by an
\* override, and the requests of the CLI's --filter.
FilterProjects ==
  { Project("a", FALSE, <<>>),
    Project("A", FALSE, <<>>),
    Project("", FALSE, <<>>),
    Project("apps", FALSE, <<>>),
    Project("libs", FALSE, <<>>),
    Project("a", TRUE, <<>>),
    Project("a", FALSE, <<[key |-> "dll", skip |-> TRUE]>>) }

FilterRequests ==
  {StringFilter(" a")}
  \cup {ArrayFilter(f) :
          f \in { <<>>, <<"apps">>, <<"libs">>, <<"a">>, <<"libs", "a">>, <<"apps", "a">>,
                  <<"apps", "libs">> }}

NextFilter ==
  \/ \E f \in FilterRequests, d \in BOOLEAN :
       /\ GetWebpackConfig("angular-build.json",
                           [fromAngularBuildCli |-> TRUE, filter |-> f, clean |-> FALSE],
                           [given |-> TRUE, dll |-> d, options |-> NoOptions],
                           WebpackEnvUnset)
       /\ UNCHANGED call
  \/ \E libs \in SeqsUpTo(FilterProjects, MaxFilterProjects) :
       \E apps \in SeqsUpTo(FilterProjects, MaxFilterProjects - Len(libs)) :
         ReadConfig(TRUE, libs, apps)
  \/ ValidateSchema({1}, 0)
  \/ PrepareContext
  \/ FilterLibs
  \/ LibIteration("ok")
  \/ FilterApps
  \/ \E isDll \in BOOLEAN : AppIteration("ok", isDll)
  \/ Finish

\* The inputs of the options' specification: every config path, argument
\* bags with and without the CLI's mark, an env argument that is absent or
\* given, with and without options, and the four kinds of WEBPACK_ENV.
OptionArgvs ==
  {[fromAngularBuildCli |-> c, filter |-> f, clean |-> cl] :
     c \in BOOLEAN, f \in {NoFilter, ArrayFilter(<<"a">>), StringFilter("libs")},
     cl \in BOOLEAN}

OptionSets ==
  {NoOptions}
  \cup {[present |-> TRUE, filter |-> f, clean |-> cl] :
          f \in {NoFilter, ArrayFilter(<<"apps">>)}, cl \in BOOLEAN}

OptionEnvs ==
  {NoEnv} \cup {[given |-> TRUE, dll |-> d, options |-> o] : d \in BOOLEAN, o \in OptionSets}

WebpackEnvs ==
  {WebpackEnvUnset}
  \cup {[kind |-> k, value |-> NoEnv] : k \in {"malformed", "scalar"}}
  \cup {[kind |-> "object", value |-> [given |-> TRUE, dll |-> FALSE, options |-> o]] :
          o \in {NoOptions, [present |-> TRUE, filter |-> StringFilter("a"), clean |-> TRUE]}}

NextOptions ==
  \/ /\ cpc = "idle"
     /\ \E path \in ConfigPaths, argv \in OptionArgvs, env \in OptionEnvs, w \in WebpackEnvs :
          Invoke(path, argv, env, w)
  \/ \E libs \in SeqsUpTo({Project("a", FALSE, <<>>)}, 1) :
       \E apps \in SeqsUpTo({Project("a", FALSE, <<>>), Project("b", FALSE, <<>>)}, 1) :
         ReadConfig(TRUE, libs, apps)
  \/ ValidateSchema({1}, 0)
  \/ PrepareContext
  \/ FilterLibs
  \/ LibIteration("ok")
  \/ FilterApps
  \/ AppIteration("ok", FALSE)
  \/ Finish

(***************************************************************************)
(* The entry parser: parseAssetEntry (parse-asset-entry.ts, lines 15-82)   *)
(***************************************************************************)

\* A string is a sequence of characters; the separator, a letter and the
\* wildcard marker are the characters that the parser tells apart.
Chars == {"/", "a", "*"}

Strings == UNION {[1..n -> Chars] : n \in 0..MaxLen}

\* p.lastIndexOf(c), 0-based, -1 when c does not occur
lastIndexOf(p, c) ==
  IF \E i \in 1..Len(p) : p[i] = c
  THEN (CHOOSE i \in 1..Len(p) : p[i] = c /\ \A j \in (i + 1)..Len(p) : p[j] # c) - 1
  ELSE -1

\* p.substr(start, length)
substr(p, start, length) == SubSeq(p, start + 1, start + length)

\* path.isAbsolute(p), POSIX
isAbsoluteNever(p) == FALSE

isAbsolute(p) == Len(p) > 0 /\ p[1] = "/"

\* The segments of a path: what stands between separators, empty segments
\* dropped, as path.resolve normalises.
RECURSIVE Segments(_, _)
Segments(p, cur) ==
  IF p = <<>> THEN (IF cur = <<>> THEN <<>> ELSE <<cur>>)
  ELSE IF Head(p) = "/"
  THEN (IF cur = <<>> THEN <<>> ELSE <<cur>>) \o Segments(Tail(p), <<>>)
  ELSE Segments(Tail(p), Append(cur, Head(p)))

\* path.resolve(baseDir, p), baseDir being absolute
resolve(dir, p) ==
  IF isAbsolute(p) THEN Segments(p, <<>>) ELSE Segments(dir, <<>>) \o Segments(p, <<>>)

\* The disk: the directories /, /a and /a/a and the file /aa.
Directories == { <<>>, << <<"a">> >>, << <<"a">>, <<"a">> >> }

Files == { << <<"a", "a">> >> }

\* fs.existsSync(path) for asset paths
assetExists(path) == path \in Directories \cup Files

\* fs.statSync(path).isDirectory(); called on existing paths only
isDirectory(path) == path \in Directories

AllFilesSuffix == <<"/", "*", "*", "/", "*">>

\* Object values. A from is absent, null, a string or a glob object; to and
\* context are absent (<<>>) or hold one string.
AbsentFrom == [kind |-> "absent", s |-> <<>>, dot |-> FALSE]

NullFrom == [kind |-> "null", s |-> <<>>, dot |-> FALSE]

StringFrom(str) == [kind |-> "string", s |-> str, dot |-> FALSE]

GlobFrom(glob, dot) == [kind |-> "glob", s |-> glob, dot |-> dot]

Object(from, to, context) == [from |-> from, to |-> to, context |-> context]

\* The entries of the array: strings, references to objects, anything else.
StringEntry(str) == [type |-> "string", s |-> str, ref |-> 0]

ObjectEntry(ref) == [type |-> "object", s |-> <<>>, ref |-> ref]

OtherEntry == [type |-> "other", s |-> <<>>, ref |-> 0]

\* assetEntries: absent, one string, or an array of entries.
AbsentEntries == [shape |-> "absent", s |-> <<>>, items |-> <<>>]

OneString(str) == [shape |-> "string", s |-> str, items |-> <<>>]

ArrayOf(items) == [shape |-> "array", s |-> <<>>, items |-> items]

\* Object.assign(target, source) with a fresh object literal as its target:
\* a new object with the target's fields overwritten by those the source has.
ObjectAssignAliased(h, target, source) == [heap |-> h, ref |-> source]

ObjectAssign(h, target, source) ==
  LET src == h[source]
      o == Object(IF src.from.kind = "absent" THEN target.from ELSE src.from,
                  IF src.to = <<>> THEN target.to ELSE src.to,
                  IF src.context = <<>> THEN target.context ELSE src.context)
  IN [heap |-> Append(h, o), ref |-> Len(h) + 1]

\* Lines 21-23: clonedEntries.
RECURSIVE clonedEntries(_, _)
clonedEntries(h, entries) ==
  IF entries = <<>> THEN [heap |-> h, entries |-> <<>>]
  ELSE LET entry == Head(entries)
           first == IF entry.type = "object"
                    THEN ObjectAssign(h, Object(NullFrom, <<>>, <<>>), entry.ref)
                    ELSE [heap |-> h, ref |-> 0]
           rest == clonedEntries(first.heap, Tail(entries))
       IN [heap |-> rest.heap,
           entries |-> <<[entry EXCEPT !.ref = first.ref]>> \o rest.entries]

\* Lines 25-40: prepareGlobFn.
prepareGlobFnAnyDirectory(dir, p) ==
  IF p = <<>> THEN <<>>
  ELSE IF /\ lastIndexOf(p, "*") = -1
          /\ assetExists(resolve(dir, p))
          /\ isDirectory(resolve(dir, p))
  THEN (IF lastIndexOf(p, "/") > -1 THEN substr(p, 0, Len(p) - 1) ELSE p) \o AllFilesSuffix
  ELSE p

prepareGlobFn(dir, p) ==
  IF p = <<>> THEN <<>>
  ELSE IF /\ lastIndexOf(p, "*") = -1
          /\ ~isAbsolute(p)
          /\ assetExists(resolve(dir, p))
          /\ isDirectory(resolve(dir, p))
  THEN (IF lastIndexOf(p, "/") > -1 THEN substr(p, 0, Len(p) - 1) ELSE p) \o AllFilesSuffix
  ELSE p

\* Lines 45, 66: the test of the literal-path shortcut.
IsLiteralNever(fromGlob, str) == FALSE

IsLiteral(fromGlob, str) == fromGlob = str /\ isAbsolute(fromGlob)

\* Lines 43-59: a string entry becomes a new object, a literal path or a glob.
ParseString(h, dir, str) ==
  LET fromGlob == prepareGlobFn(dir, str)
      o == IF IsLiteral(fromGlob, str)
           THEN Object(StringFrom(str), <<>>, <<dir>>)
           ELSE Object(GlobFrom(fromGlob, TRUE), <<>>, <<dir>>)
  IN [heap |-> Append(h, o), ref |-> Len(h) + 1]

\* (asset as AssetEntry).from, !assetParsedEntry.context
TruthyFrom(from) == from.kind = "glob" \/ (from.kind = "string" /\ from.s # <<>>)

FalsyContext(context) == context = <<>> \/ context = << <<>> >>

\* Lines 60-77: an object entry with a from becomes a copy of it, with the
\* context filled in and a string from replaced as a string entry's is.
ParseObject(h, dir, ref) ==
  LET a == ObjectAssign(h, Object(AbsentFrom, <<>>, <<>>), ref)
      from == h[ref].from
      withContext == IF FalsyContext(a.heap[a.ref].context)
                     THEN [a.heap EXCEPT ![a.ref].context = <<dir>>]
                     ELSE a.heap
      withFrom == IF from.kind = "string"
                  THEN LET fromGlob == prepareGlobFn(dir, from.s)
                       IN IF IsLiteral(fromGlob, from.s)
                          THEN [withContext EXCEPT ![a.ref].from = from]
                          ELSE [withContext EXCEPT ![a.ref].from = GlobFrom(fromGlob, TRUE)]
                  ELSE withContext
  IN [heap |-> withFrom, ref |-> a.ref]

\* Lines 42-80: the map over clonedEntries; the first entry that is neither
\* a string nor an object with a from throws.
RECURSIVE ParseEntries(_, _, _)
ParseEntries(h, dir, entries) ==
  IF entries = <<>> THEN [heap |-> h, refs |-> <<>>, error |-> "none"]
  ELSE LET asset == Head(entries)
       IN IF asset.type = "string" \/ (asset.type = "object" /\ TruthyFrom(h[asset.ref].from))
          THEN LET one == IF asset.type = "string"
                          THEN ParseString(h, dir, asset.s)
                          ELSE ParseObject(h, dir, asset.ref)
                   rest == ParseEntries(one.heap, dir, Tail(entries))
               IN [heap |-> rest.heap,
                   refs |-> IF rest.error = "none" THEN <<one.ref>> \o rest.refs ELSE <<>>,
                   error |-> rest.error]
          ELSE [heap |-> h, refs |-> <<>>, error |-> "Error"]

\* Lines 15-82: parseAssetEntry. objects are the caller's objects, which the
\* object entries of assetEntries refer to.
ParseAssetEntry(dir, entries, objects) ==
  /\ apc = "idle"
  /\ apc' = "done"
  /\ baseDir' = dir
  /\ assetEntries' = entries
  /\ callerHeap' = objects
  /\ IF entries.shape = "absent"
        \/ (entries.shape = "string" /\ Len(entries.s) = 0)
        \/ (entries.shape = "array" /\ Len(entries.items) = 0)
     THEN /\ heap' = objects
          /\ parsed' = <<>>
          /\ assetError' = "none"
     ELSE LET list == IF entries.shape = "array" THEN entries.items
                      ELSE <<StringEntry(entries.s)>>
              cloned == clonedEntries(objects, list)
              result == ParseEntries(cloned.heap, dir, cloned.entries)
          IN /\ heap' = result.heap
             /\ parsed' = result.refs
             /\ assetError' = result.error
  /\ UNCHANGED <<gateVars, cfgVars, dllVars, stylesVars>>

\* The inputs of the entry parser's specification: every string up to the
\* bound, as a lone string and as an array's entry; objects with every from
\* and with and without to and context; arrays of two entries, the second a
\* string, an object or neither.
BaseDirs == { <<"/">>, <<"/", "a">> }

Froms ==
  {AbsentFrom, NullFrom, GlobFrom(<<"a">>, FALSE)} \cup {StringFrom(str) : str \in Strings}

Objects ==
  {Object(from, to, context) :
     from \in Froms,
     to \in { <<>>, << <<"a">> >> },
     context \in { <<>>, << <<>> >>, << <<"/", "a">> >> }}

SecondEntries == {StringEntry(<<"/", "a">>), StringEntry(<<"a">>), ObjectEntry(2), OtherEntry}

SecondObject == Object(StringFrom(<<"a">>), <<>>, <<>>)

NextAssets ==
  \/ \E dir \in BaseDirs : ParseAssetEntry(dir, AbsentEntries, <<>>)
  \/ \E dir \in BaseDirs, str \in Strings : ParseAssetEntry(dir, OneString(str), <<>>)
  \/ \E dir \in BaseDirs : ParseAssetEntry(dir, ArrayOf(<<>>), <<>>)
  \/ \E dir \in BaseDirs, str \in Strings :
       ParseAssetEntry(dir, ArrayOf(<<StringEntry(str)>>), <<>>)
  \/ \E dir \in BaseDirs, o \in Objects :
       ParseAssetEntry(dir, ArrayOf(<<ObjectEntry(1)>>), <<o>>)
  \/ \E dir \in BaseDirs : ParseAssetEntry(dir, ArrayOf(<<OtherEntry>>), <<>>)
  \/ \E dir \in BaseDirs, str \in Strings, second \in SecondEntries :
       ParseAssetEntry(dir, ArrayOf(<<StringEntry(str), second>>),
                       <<SecondObject, SecondObject>>)
  \/ \E dir \in BaseDirs, o \in Objects, second \in SecondEntries :
       ParseAssetEntry(dir, ArrayOf(<<ObjectEntry(1), second>>), <<o, SecondObject>>)

(***************************************************************************)
(* The vendor-bundle configuration: getAppDllWebpackConfig and             *)
(* getAppDllWebpackConfigPartial (dll.ts)                                  *)
(***************************************************************************)

\* A configuration fragment: two scalar keys, each absent (<<>>) or set, the
\* entry and the plugin list. An entry is absent, a falsy scalar ("null"),
\* a function ("fn"), or a map: key/values pairs in insertion order.
Fragment(devtool, publicPath, entry, plugins) ==
  [devtool |-> devtool, publicPath |-> publicPath, entry |-> entry, plugins |-> plugins]

NoEntry == [kind |-> "absent", map |-> <<>>]

NullEntry == [kind |-> "null", map |-> <<>>]

FnEntry == [kind |-> "fn", map |-> <<>>]

\* (() => ({}))
NoOpEntry == [kind |-> "noop", map |-> <<>>]

MapEntry(pairs) == [kind |-> "map", map |-> pairs]

EmptyConfiguration == Fragment(<<>>, <<>>, NoEntry, <<>>)

\* webpack-merge on two entry maps: the keys are unioned, the arrays of a
\* key that both have are concatenated.
RECURSIVE MergeMaps(_, _)
MergeMaps(a, b) ==
  IF b = <<>> THEN a
  ELSE LET pair == Head(b)
           merged == IF \E i \in DOMAIN a : a[i].key = pair.key
                     THEN [i \in DOMAIN a |->
                             IF a[i].key = pair.key
                             THEN [key |-> pair.key, values |-> a[i].values \o pair.values]
                             ELSE a[i]]
                     ELSE Append(a, pair)
       IN MergeMaps(merged, Tail(b))

\* webpack-merge on one key: two objects are merged, otherwise the later
\* value replaces the earlier one; a key the later fragment has not is kept.
MergeEntry(a, b) ==
  IF b.kind = "absent" THEN a
  ELSE IF a.kind = "map" /\ b.kind = "map" THEN MapEntry(MergeMaps(a.map, b.map))
  ELSE b

MergeScalar(a, b) == IF b = <<>> THEN a ELSE b

\* webpackMerge(configs): left to right.
RECURSIVE webpackMerge(_)
webpackMerge(configs) ==
  IF configs = <<>> THEN EmptyConfiguration
  ELSE LET a == webpackMerge(SubSeq(configs, 1, Len(configs) - 1))
           b == configs[Len(configs)]
       IN Fragment(MergeScalar(a.devtool, b.devtool),
                   MergeScalar(a.publicPath, b.publicPath),
                   MergeEntry(a.entry, b.entry),
                   a.plugins \o b.plugins)

\* Lines 42-44: an entry that is falsy or an object without keys is replaced.
SubstituteEntryNever(entry) == entry

SubstituteEntry(entry) ==
  IF entry.kind \in {"absent", "null"} \/ (entry.kind = "map" /\ Len(entry.map) = 0)
  THEN NoOpEntry
  ELSE entry

\* if (!entries.includes(e)) entries.push(e), over a list
PushAllUnchecked(entries, list) == entries \o list

RECURSIVE PushAll(_, _)
PushAll(entries, list) ==
  IF list = <<>> THEN entries
  ELSE PushAll(IF \E i \in DOMAIN entries : entries[i] = Head(list)
               THEN entries ELSE Append(entries, Head(list)),
               Tail(list))

\* Line 72: appConfig.vendorChunkName || 'vendor'
vendorChunkName(appConfig) ==
  IF appConfig.vendorChunkName = "" THEN "vendor" ELSE appConfig.vendorChunkName

\* Lines 79-102: the entries of the vendor bundle.
DllEntries(appConfig) ==
  IF appConfig.dlls
  THEN LET r == appConfig.dllParsedResult[1]
       IN PushAll(PushAll(PushAll(<<>>, r.tsEntries), r.scriptEntries), r.styleEntries)
  ELSE <<>>

\* Lines 49-196: getAppDllWebpackConfigPartial: the error thrown, or "none"
\* and the fragment.
InternalErrorCase(appConfig) == appConfig.dlls /\ appConfig.dllParsedResult = <<>>

getAppDllWebpackConfigPartial(appConfig) ==
  IF ~appConfig.outputPath
  THEN [error |-> "InvalidConfigError", at |-> "outputPath", fragment |-> <<>>]
  ELSE IF InternalErrorCase(appConfig)
  THEN [error |-> "InternalError", at |-> "_dllParsedResult", fragment |-> <<>>]
  ELSE IF Len(DllEntries(appConfig)) = 0
  THEN [error |-> "InvalidConfigError", at |-> "no entry", fragment |-> <<>>]
  ELSE [error |-> "none", at |-> "",
        fragment |->
          <<Fragment(<<>>,
                     IF appConfig.publicPath = <<>> THEN <<"/">> ELSE appConfig.publicPath,
                     MapEntry(<<[key |-> vendorChunkName(appConfig),
                                 values |-> DllEntries(appConfig)]>>),
                     <<"DllPlugin", "WriteStatsJsonWebpackPlugin",
                       "WriteAssetsToDiskWebpackPlugin", "IgnorePlugin", "AngularFixPlugins">>)>>]

\* Lines 34-39: the fragments in the order they are merged in.
ConfigsCustomFirst(common, styles, dll, custom) == <<custom, common, styles, dll>>

Configs(common, styles, dll, custom) == <<common, styles, dll, custom>>

\* Lines 17-47: getAppDllWebpackConfig. common and styles are what the two
\* other builders return, custom what the user's webpackConfig file exports.
GetAppDllWebpackConfig(appConfig, common, styles, custom) ==
  /\ dpc = "idle"
  /\ dpc' = "done"
  /\ dllArgs' = [appConfig |-> appConfig, common |-> common, styles |-> styles,
                 custom |-> custom]
  /\ IF ~appConfig.isDll \/ appConfig.projectType # "app"
     THEN /\ dllReturn' = [kind |-> "empty", config |-> EmptyConfiguration]
          /\ dllPartial' = <<>>
          /\ dllError' = [error |-> "none", at |-> ""]
     ELSE LET customWebpackConfig == IF appConfig.webpackConfig THEN custom
                                     ELSE EmptyConfiguration
              partial == getAppDllWebpackConfigPartial(appConfig)
          IN /\ dllPartial' = partial.fragment
             /\ dllError' = [error |-> partial.error, at |-> partial.at]
             /\ IF partial.error # "none"
                THEN dllReturn' = [kind |-> "none", config |-> EmptyConfiguration]
                ELSE LET mergedConfig ==
                           webpackMerge(Configs(common, styles, partial.fragment[1],
                                                customWebpackConfig))
                     IN dllReturn' =
                          [kind |-> "merged",
                           config |-> [mergedConfig EXCEPT
                                         !.entry = SubstituteEntry(mergedConfig.entry)]]
  /\ UNCHANGED <<gateVars, cfgVars, assetVars, stylesVars>>

\* The inputs of the vendor-bundle specification.
AppConfig(isDll, projectType, outputPath, publicPath, chunk, dlls, dllResult, webpackConfig) ==
  [isDll |-> isDll, projectType |-> projectType, outputPath |-> outputPath,
   publicPath |-> publicPath, vendorChunkName |-> chunk, dlls |-> dlls,
   dllParsedResult |-> dllResult, webpackConfig |-> webpackConfig]

DllParsedResults ==
  { <<>> } \cup
  { <<[tsEntries |-> ts, scriptEntries |-> sc, styleEntries |-> st]>> :
      ts \in { <<>>, <<"t">>, <<"t", "t">> },
      sc \in { <<>>, <<"t", "s">> },
      st \in { <<>>, <<"s">> } }

ProducerConfigs ==
  { AppConfig(TRUE, "app", o, pp, chunk, dlls, dllResult, w) :
      o \in BOOLEAN, pp \in { <<>>, <<"/app/">> }, chunk \in {"", "dll"},
      dlls \in BOOLEAN, dllResult \in DllParsedResults, w \in BOOLEAN }

OtherConfigs ==
  { AppConfig(isDll, type, TRUE, <<>>, "", TRUE, <<>>, FALSE) :
      isDll \in BOOLEAN, type \in {"app", "lib"} } \ ProducerConfigs

CommonFragments ==
  { Fragment(devtool, <<>>, entry, <<"CommonPlugin">>) :
      devtool \in { <<>>, <<"common">> },
      entry \in { NoEntry, MapEntry(<<[key |-> "vendor", values |-> <<"c">>]>>) } }

StylesFragments ==
  { Fragment(<<>>, <<>>, MapEntry(<<>>), <<>>) }

CustomFragments ==
  { Fragment(devtool, pp, entry, <<"CustomPlugin">>) :
      devtool \in { <<>>, <<"custom">> },
      pp \in { <<>>, <<"/custom/">> },
      entry \in { NoEntry, NullEntry, FnEntry, MapEntry(<<>>),
                  MapEntry(<<[key |-> "vendor", values |-> <<"u">>]>>) } }

NextDll ==
  \/ /\ dpc = "idle"
     /\ \E appConfig \in ProducerConfigs, common \in CommonFragments,
           styles \in StylesFragments, custom \in CustomFragments :
          GetAppDllWebpackConfig(appConfig, common, styles, custom)
  \/ /\ dpc = "idle"
     /\ \E appConfig \in OtherConfigs, common \in CommonFragments,
           styles \in StylesFragments :
          GetAppDllWebpackConfig(appConfig, common, styles, EmptyConfiguration)

(***************************************************************************)
(* The styles builder: getStylesConfigPartial (styles.ts)                  *)
(***************************************************************************)

\* Lines 165-167: the main web build of an app.
IsMainWebBuildIgnoringTest(args) ==
  args.projectType = "app" /\ args.platformTarget = "web" /\ ~args.dll

IsMainWebBuild(args) ==
  args.projectType = "app" /\ args.platformTarget = "web" /\ ~args.dll /\ ~args.test

\* Lines 175-179: the global styles by entry name.
StyleEntryPoints(styles) ==
  MergeMaps(<<>>, [i \in DOMAIN styles |->
                     [key |-> styles[i].entry, values |-> <<styles[i].path>>]])

\* Object.keys(entryPoints)
Keys(pairs) == [i \in DOMAIN pairs |-> pairs[i].key]

\* Lines 148-225: getStylesConfigPartial. styles are the parsed global style
\* entries (empty when the project declares none).
GetStylesConfigPartial(args) ==
  /\ spc = "idle"
  /\ spc' = "done"
  /\ stylesArgs' = args
  /\ LET entryPoints == IF IsMainWebBuild(args) /\ Len(args.styles) > 0
                        THEN StyleEntryPoints(args.styles) ELSE <<>>
         stylePlugins == IF IsMainWebBuild(args) /\ args.extractCss
                         THEN <<[name |-> "ExtractTextPlugin", chunks |-> <<>>],
                                [name |-> "SuppressEntryChunksWebpackPlugin",
                                 chunks |-> Keys(entryPoints)]>>
                         ELSE <<>>
     IN stylesReturn' = [entry |-> MapEntry(entryPoints), plugins |-> stylePlugins]
  /\ UNCHANGED <<gateVars, cfgVars, assetVars, dllVars>>

\* The inputs of the styles specification.
GlobalStyles ==
  { [entry |-> "styles", path |-> "a.css"], [entry |-> "styles", path |-> "b.css"],
    [entry |-> "theme", path |-> "t.css"] }

StylesArgs ==
  { [projectType |-> type, platformTarget |-> target, dll |-> dll, test |-> test,
     extractCss |-> extract, styles |-> styles] :
      type \in {"app", "lib"}, target \in {"web", "node", ""}, dll \in BOOLEAN,
      test \in BOOLEAN, extract \in BOOLEAN, styles \in SeqsUpTo(GlobalStyles, 2) }

NextStyles == \E args \in StylesArgs : GetStylesConfigPartial(args)

GateInit == inv = [i \in Invocations |-> IdleInvocation]

CfgInit ==
  /\ cpc = "idle"
  /\ outcome = "none"
  /\ fromCli = FALSE
  /\ filterNames = <<>>
  /\ cleanOutDirs = FALSE
  /\ environment = [dll |-> FALSE, options |-> FALSE]
  /\ libConfigs = <<>>
  /\ appConfigs = <<>>
  /\ filtered = <<>>
  /\ idx = 0
  /\ webpackConfigs = <<>>
  /\ touched = <<>>
  /\ ctxInit = FALSE
  /\ schemaErrors = 0
  /\ thrownAt = ""
  /\ call = [configPath |-> "",
             argv |-> [fromAngularBuildCli |-> FALSE, filter |-> NoFilter, clean |-> FALSE],
             env |-> NoEnv, webpackEnv |-> WebpackEnvUnset]

AssetInit ==
  /\ apc = "idle"
  /\ baseDir = <<"/">>
  /\ assetEntries = AbsentEntries
  /\ callerHeap = <<>>
  /\ heap = <<>>
  /\ parsed = <<>>
  /\ assetError = "none"

DllInit ==
  /\ dpc = "idle"
  /\ dllArgs = [appConfig |-> AppConfig(FALSE, "app", FALSE, <<>>, "", FALSE, <<>>, FALSE),
                common |-> EmptyConfiguration, styles |-> EmptyConfiguration,
                custom |-> EmptyConfiguration]
  /\ dllPartial = <<>>
  /\ dllReturn = [kind |-> "none", config |-> EmptyConfiguration]
  /\ dllError = [error |-> "none", at |-> ""]

StylesInit ==
  /\ spc = "idle"
  /\ stylesArgs = [projectType |-> "app", platformTarget |-> "", dll |-> FALSE,
                   test |-> FALSE, extractCss |-> FALSE, styles |-> <<>>]
  /\ stylesReturn = [entry |-> MapEntry(<<>>), plugins |-> <<>>]

Init == GateInit /\ CfgInit /\ AssetInit /\ DllInit /\ StylesInit

Next ==
  \/ \E i \in Invocations, hook \in {"run", "watch-run"} : tryDll(i, hook)
  \/ \E i \in Invocations, o \in StatOutcomes : StatCallback(i, o)
  \/ \E i \in Invocations, how \in {"ok", "webpackThrows", "runThrows"} : ThenExists(i, how)
  \/ \E i \in Invocations, o \in RunOutcomes : RunCallback(i, o)
  \/ \E i \in Invocations, throws \in BOOLEAN : ThenNext(i, throws)
  \/ \E i \in Invocations : CatchNext(i)

Spec == Init /\ [][Next]_vars

SpecConfig == Init /\ [][NextConfig]_vars

SpecFilter == Init /\ [][NextFilter]_vars

SpecOptions == Init /\ [][NextOptions]_vars

SpecAssets == Init /\ [][NextAssets]_vars

SpecDll == Init /\ [][NextDll]_vars

SpecStyles == Init /\ [][NextStyles]_vars

(***************************************************************************)
(* Gatekeeper claims                                                       *)
(***************************************************************************)

Finished(i) == inv[i].pc = "done"

BundlerFailed(b) == b \in {"err", "webpackThrew", "runThrew"}

\* The error a failed bundler invocation raises.
BundlerError(b) == IF b = "err" THEN "CompilerError" ELSE "ThrownError"

\* C1: the completion callback is called without an error only if the stat
\* reported a regular file, or a vendor build ran and reported no errors.
C1_NoErrorOnlyAfterFileOrCleanBuild ==
  \A i \in Invocations : \A k \in DOMAIN inv[i].calls :
    ~IsError(inv[i].calls[k]) =>
      \/ inv[i].stat = "file"
      \/ inv[i].runs >= 1 /\ inv[i].bundler \in {"warnings", "clean"}

\* C2: whenever the stat call fails (the manifest is missing, or any other
\* stat error), the bundler has been started before the hook completes.
C2_StatFailureLeadsToBuild ==
  \A i \in Invocations :
    StatFailed(inv[i].stat) /\ inv[i].calls # <<>> => inv[i].runs >= 1

\* C3: when the stat reports a regular file the hook completes by calling
\* next() with no error (once, unless next itself throws) and the bundler is
\* never invoked; the bundler is invoked only when the stat does not report a
\* regular file.
C3_FileSkipsBuild ==
  \A i \in Invocations :
    /\ inv[i].stat = "file" => inv[i].runs = 0 /\ inv[i].bundler = "none"
    /\ inv[i].stat = "file" /\ Finished(i) =>
         /\ inv[i].calls # <<>>
         /\ inv[i].calls[1] = "none"
         /\ ~inv[i].nextThrew => inv[i].calls = <<"none">>

C3_Witness ==
  \E i \in Invocations :
    inv[i].stat = "file" /\ Finished(i) /\ inv[i].calls = <<"none">>

\* C4: when the manifest is absent and no bundler failure occurs, the hook
\* completes by calling its completion callback with no error.
C4_AbsentThenCleanBuildCompletes ==
  \A i \in Invocations :
    /\ inv[i].stat = "ENOENT"
    /\ Finished(i)
    /\ ~BundlerFailed(inv[i].bundler)
    /\ ~hasErrors(inv[i].bundler)
    => inv[i].calls # <<>> /\ ~IsError(inv[i].calls[1])

\* C5: an err passed to the run callback, or a throw while creating or
\* running the compiler, reaches the completion callback as that error, and
\* the callback is never called without an error in that invocation.
C5_BundlerFailureIsSurfaced ==
  \A i \in Invocations :
    BundlerFailed(inv[i].bundler) =>
      /\ \A k \in DOMAIN inv[i].calls : IsError(inv[i].calls[k])
      /\ Finished(i) => inv[i].calls = <<BundlerError(inv[i].bundler)>>

C5_Witness ==
  \E i \in Invocations :
    inv[i].bundler = "err" /\ Finished(i) /\ inv[i].calls = <<"CompilerError">>

\* C6: in one hook invocation the vendor bundler is started at most once.
C6_AtMostOneRunPerInvocation ==
  \A i \in Invocations : inv[i].runs <= 1

C6_Witness ==
  \E i \in Invocations : Finished(i) /\ inv[i].runs = 1 /\ inv[i].hook = "watch-run"

(***************************************************************************)
(* Pipeline claims                                                         *)
(***************************************************************************)

Errors == {"InvalidOptionError", "InvalidConfigError", "InternalError"}

\* The project's skip flag once the environment overrides are applied.
SkipFlagged(p) == applyProjectConfigWithEnvOverrides(p, environment).skip

Tagged(kind, s) == [j \in 1..Len(s) |-> <<kind, s[j]>>]

\* The projects of the returned configurations, in list order.
ResultProjects ==
  [j \in 1..Len(webpackConfigs) |-> <<webpackConfigs[j].kind, webpackConfigs[j].project>>]

\* The projects that pass the filter and are not skip-flagged, in declared order.
SurvivingLibs ==
  SelectSeq(FilteredLibConfigs(libConfigs, filterNames),
            LAMBDA k : ~SkipFlagged(libConfigs[k]))

SurvivingApps ==
  SelectSeq(FilteredAppConfigs(appConfigs, filterNames),
            LAMBDA k : ~SkipFlagged(appConfigs[k]))

\* Every declared project that is not skip-flagged, in declared order.
NonSkipLibs == SelectSeq(Indices(libConfigs), LAMBDA k : ~SkipFlagged(libConfigs[k]))

NonSkipApps == SelectSeq(Indices(appConfigs), LAMBDA k : ~SkipFlagged(appConfigs[k]))

\* C7: getWebpackConfig never returns an empty list; when the loops end with
\* no configuration (or nothing was produced at all) it has raised an error,
\* InvalidConfigError at the final check, instead of returning.
C7_NeverReturnsEmpty ==
  /\ outcome = "returned" => Len(webpackConfigs) > 0
  /\ cpc = "done" /\ webpackConfigs = <<>> => outcome \in Errors
  /\ cpc = "done" /\ ctxInit /\ webpackConfigs = <<>>
       /\ thrownAt \notin {"validateProjectConfig", "builder"}
     => outcome = "InvalidConfigError" /\ thrownAt = "no project available"

C7_Witness ==
  /\ cpc = "done"
  /\ thrownAt = "no project available"
  /\ outcome = "InvalidConfigError"
  /\ touched # <<>>
  /\ filterNames = <<>>

\* C8: the returned list holds exactly one configuration per surviving
\* project, libs before apps, each kind in declared order.
C8_OnePerSurvivorInDeclaredOrder ==
  outcome = "returned" =>
    ResultProjects = Tagged("lib", SurvivingLibs) \o Tagged("app", SurvivingApps)

C8_Witness ==
  /\ outcome = "returned"
  /\ Len(libConfigs) = 2
  /\ Len(appConfigs) = 1
  /\ ResultProjects = <<<<"lib", 1>>, <<"lib", 2>>, <<"app", 1>>>>

\* C9: when schema validation reports a violation the invocation has failed
\* with InvalidConfigError and no project was touched: no override
\* resolution, validation, defaults, build context or builder ran.
C9_SchemaViolationFailsFast ==
  schemaErrors > 0 =>
    /\ cpc = "done"
    /\ outcome = "InvalidConfigError"
    /\ thrownAt = "schema"
    /\ touched = <<>>
    /\ ~ctxInit
    /\ filtered = <<>>
    /\ webpackConfigs = <<>>

C9_Witness ==
  /\ schemaErrors > 0
  /\ outcome = "InvalidConfigError"
  /\ Len(libConfigs) >= 1
  /\ Len(appConfigs) >= 1

\* C10: with an empty requested-name list the filter keeps every project,
\* and the projects that are not skip-flagged all get through, in declared
\* order, for libs and for apps.
C10_EmptyFilterKeepsAllNonSkip ==
  filterNames = <<>> =>
    /\ cpc = "libLoop" => filtered = Indices(libConfigs)
    /\ cpc = "appLoop" => filtered = Indices(appConfigs)
    /\ outcome = "returned" =>
         ResultProjects = Tagged("lib", NonSkipLibs) \o Tagged("app", NonSkipApps)
    /\ thrownAt = "no project available" => NonSkipLibs = <<>> /\ NonSkipApps = <<>>

C10_Witness ==
  /\ filterNames = <<>>
  /\ outcome = "returned"
  /\ Len(libConfigs) = 2
  /\ ResultProjects = <<<<"lib", 2>>, <<"app", 1>>>>

(***************************************************************************)
(* Filter claims                                                           *)
(***************************************************************************)

Declared(kind) == IF kind = "lib" THEN libConfigs ELSE appConfigs

\* The project's own reserved group name is requested, or its declared name
\* is one of the requested names.
Requested(group, p) ==
  \/ \E k \in DOMAIN filterNames : filterNames[k] = group
  \/ \E k \in DOMAIN filterNames : filterNames[k] = p.name

\* The requested names are the one reserved group name and nothing else.
Exclusively(group) ==
  filterNames # <<>> /\ \A k \in DOMAIN filterNames : filterNames[k] = group

RequestedLibs ==
  SelectSeq(Indices(libConfigs),
            LAMBDA k : ~SkipFlagged(libConfigs[k]) /\ Requested("libs", libConfigs[k]))

RequestedApps ==
  SelectSeq(Indices(appConfigs),
            LAMBDA k : ~SkipFlagged(appConfigs[k]) /\ Requested("apps", appConfigs[k]))

\* C11 as stated: with requested names, the non-skip projects that get through
\* are exactly those whose own group name or whose declared name is requested.
C11_SelectedIffRequested ==
  filterNames # <<>> =>
    /\ outcome = "returned" =>
         ResultProjects = Tagged("lib", RequestedLibs) \o Tagged("app", RequestedApps)
    /\ thrownAt = "no project available" => RequestedLibs = <<>> /\ RequestedApps = <<>>

\* C11 as amended: the same, except that requested names consisting only of
\* the other kind's reserved group name select no project of this kind, even
\* one that is declared under that very name.
C11_SelectedIffRequestedUnlessOtherGroupOnly ==
  LET libs == IF Exclusively("apps") THEN <<>> ELSE RequestedLibs
      apps == IF Exclusively("libs") THEN <<>> ELSE RequestedApps
  IN filterNames # <<>> =>
       /\ outcome = "returned" =>
            ResultProjects = Tagged("lib", libs) \o Tagged("app", apps)
       /\ thrownAt = "no project available" => libs = <<>> /\ apps = <<>>

C11_Witness ==
  /\ filterNames = <<"a">>
  /\ outcome = "returned"
  /\ Len(appConfigs) = 2
  /\ appConfigs[1].name = "A"
  /\ ResultProjects = <<<<"app", 2>>>>

\* C12 as stated: when 'libs' is among the requested names no app gets through.
C12_LibsRequestedEmptiesApps ==
  (\E k \in DOMAIN filterNames : filterNames[k] = "libs") =>
    \A j \in DOMAIN webpackConfigs : webpackConfigs[j].kind # "app"

\* C12 as amended: when 'libs' is the only requested name no app gets through
\* and the app loop is not entered; an app requested by name alongside 'libs'
\* gets through.
C12_OnlyLibsRequestedEmptiesApps ==
  /\ Exclusively("libs") =>
       /\ cpc # "appLoop"
       /\ \A j \in DOMAIN webpackConfigs : webpackConfigs[j].kind # "app"
  /\ /\ \E k \in DOMAIN filterNames : filterNames[k] = "libs"
     /\ ~Exclusively("libs")
     /\ outcome = "returned"
     =>
     \A k \in DOMAIN appConfigs :
       ~SkipFlagged(appConfigs[k]) /\ Requested("none", appConfigs[k])
       => \E j \in DOMAIN webpackConfigs :
            webpackConfigs[j].kind = "app" /\ webpackConfigs[j].project = k

C12_Witness ==
  /\ filterNames = <<"libs">>
  /\ outcome = "returned"
  /\ Len(appConfigs) = 1
  /\ appConfigs[1].name = "libs"
  /\ ResultProjects = <<<<"lib", 1>>>>

\* C13: a project that is skip-flagged once the environment overrides are
\* applied contributes no configuration, whatever names are requested; one
\* non-skipped lib and one skipped app give one configuration, the lib's.
C13_SkipFlaggedNeverContributes ==
  /\ \A j \in DOMAIN webpackConfigs :
       ~SkipFlagged(Declared(webpackConfigs[j].kind)[webpackConfigs[j].project])
  /\ /\ outcome = "returned"
     /\ Len(libConfigs) = 1
     /\ Len(appConfigs) = 1
     /\ ~SkipFlagged(libConfigs[1])
     /\ SkipFlagged(appConfigs[1])
     => ResultProjects = <<<<"lib", 1>>>>

C13_Witness ==
  /\ outcome = "returned"
  /\ filterNames = <<"a">>
  /\ Len(libConfigs) = 1
  /\ Len(appConfigs) = 1
  /\ appConfigs[1].name = "a"
  /\ SkipFlagged(appConfigs[1])
  /\ appConfigs[1].envOverrides # <<>>
  /\ ResultProjects = <<<<"lib", 1>>>>

(***************************************************************************)
(* Option claims                                                           *)
(***************************************************************************)

BadPaths == {"", "angular-build.txt", "missing.json"}

Invoked == cpc # "idle"

\* WEBPACK_ENV is set, is not valid JSON, and is what the invocation parses:
\* no CLI, no env argument, and a config path to get past the first check.
MalformedEnvParsed ==
  /\ call.configPath # ""
  /\ ~call.argv.fromAngularBuildCli
  /\ ~call.env.given
  /\ call.webpackEnv.kind = "malformed"

NothingRead == cpc = "done" /\ libConfigs = <<>> /\ appConfigs = <<>> /\ ~ctxInit

\* C14 as stated: an empty config path, one not ending in .json and one that
\* does not exist each end the invocation with InvalidOptionError, before any
\* configuration file is read and before any other error.
C14_BadPathRaisesInvalidOption ==
  Invoked /\ call.configPath \in BadPaths =>
    NothingRead /\ outcome = "InvalidOptionError"

\* C14 as amended: the same, provided that WEBPACK_ENV, when it is parsed,
\* holds valid JSON; when it does not, the SyntaxError of the parse comes
\* before the checks of the extension and of the file, and nothing is read.
C14_BadPathRaisesInvalidOptionUnlessEnvMalformed ==
  Invoked /\ call.configPath \in BadPaths =>
    /\ NothingRead
    /\ IF MalformedEnvParsed
       THEN outcome = "SyntaxError"
       ELSE outcome = "InvalidOptionError"

C14_Witness ==
  /\ Invoked
  /\ call.configPath = "missing.json"
  /\ ~call.argv.fromAngularBuildCli
  /\ ~call.env.given
  /\ call.webpackEnv.kind = "object"
  /\ outcome = "InvalidOptionError"
  /\ thrownAt = "not found"

\* The options the invocation is supplied with: those of the env argument,
\* or those of WEBPACK_ENV where it stands in for the argument.
SuppliedOptions ==
  IF call.env.given THEN call.env.options
  ELSE IF ~call.argv.fromAngularBuildCli /\ call.webpackEnv.kind = "object"
  THEN call.webpackEnv.value.options
  ELSE NoOptions

NamesOf(filter) == IF FilterGiven(filter) THEN prepareFilterNames(filter) ELSE <<>>

OptionsHandled == Invoked /\ call.configPath # "" /\ ~MalformedEnvParsed

\* C15: driven by the CLI, the filter names and the clean flag are those of
\* the argument bag, whatever the options say; not driven by the CLI, the
\* argument bag's filter and clean are ignored, the options give both, and
\* the environment holds no options from then on, so none when the overrides
\* are resolved.
C15_OptionsOnlyWithoutCli ==
  OptionsHandled =>
    IF call.argv.fromAngularBuildCli
    THEN /\ filterNames = NamesOf(call.argv.filter)
         /\ cleanOutDirs = call.argv.clean
    ELSE /\ filterNames = NamesOf(SuppliedOptions.filter)
         /\ cleanOutDirs = (SuppliedOptions.present /\ SuppliedOptions.clean)
         /\ ~environment.options

C15_Witness ==
  /\ outcome = "returned"
  /\ touched # <<>>
  /\ ~call.argv.fromAngularBuildCli
  /\ call.argv.clean
  /\ call.argv.filter = StringFilter("libs")
  /\ call.env.given
  /\ call.env.options.present
  /\ ~call.env.options.clean
  /\ filterNames = <<"apps">>
  /\ ~cleanOutDirs
  /\ ~environment.options

(***************************************************************************)
(* Entry parser claims                                                     *)
(***************************************************************************)

Absolute(p) == p # <<>> /\ Head(p) = "/"

NoWildcard(p) == \A i \in DOMAIN p : p[i] # "*"

ResolvesToDirectory(dir, p) == resolve(dir, p) \in Directories

StripTrailingSeparator(p) ==
  IF p # <<>> /\ p[Len(p)] = "/" THEN SubSeq(p, 1, Len(p) - 1) ELSE p

GlobDescriptor(glob, dir) == Object(GlobFrom(glob, TRUE), <<>>, <<dir>>)

LiteralPath(str, dir) == Object(StringFrom(str), <<>>, <<dir>>)

\* parseAssetEntry(baseDir, [p]) has been called with a string p.
OneStringParsed ==
  /\ apc = "done"
  /\ assetEntries.shape = "array"
  /\ Len(assetEntries.items) = 1
  /\ assetEntries.items[1].type = "string"

TheString == assetEntries.items[1].s

YieldsOne(o) == assetError = "none" /\ Len(parsed) = 1 /\ heap[parsed[1]] = o

\* C16: a non-empty relative string p without a wildcard that resolves under
\* baseDir to a directory yields exactly one glob descriptor: p without its
\* one trailing separator, if it has one, followed by '/**/*', dot true,
\* context baseDir.
C16_RelativeDirectoryBecomesRecursiveGlob ==
  /\ OneStringParsed
  /\ TheString # <<>>
  /\ ~Absolute(TheString)
  /\ NoWildcard(TheString)
  /\ ResolvesToDirectory(baseDir, TheString)
  => YieldsOne(GlobDescriptor(StripTrailingSeparator(TheString) \o AllFilesSuffix, baseDir))

AbsoluteDirectoryParsed ==
  /\ OneStringParsed
  /\ Absolute(TheString)
  /\ NoWildcard(TheString)
  /\ ResolvesToDirectory(baseDir, TheString)

\* C17 as stated: an absolute string without a wildcard that resolves to a
\* directory gets the directory rewrite and is emitted as a glob descriptor.
C17_AbsoluteDirectoryBecomesGlob ==
  AbsoluteDirectoryParsed =>
    YieldsOne(GlobDescriptor(StripTrailingSeparator(TheString) \o AllFilesSuffix, baseDir))

\* C17 as amended: an absolute string without a wildcard that resolves to a
\* directory is not rewritten and is emitted as a literal path, from being
\* the input and context baseDir.
C17_AbsoluteDirectoryStaysLiteral ==
  AbsoluteDirectoryParsed => YieldsOne(LiteralPath(TheString, baseDir))

C17_Witness ==
  /\ AbsoluteDirectoryParsed
  /\ TheString = <<"/", "a", "/">>
  /\ baseDir = <<"/", "a">>
  /\ YieldsOne(LiteralPath(<<"/", "a", "/">>, <<"/", "a">>))

StringSpecs ==
  IF apc # "done" \/ assetError # "none" \/ parsed = <<>> THEN {}
  ELSE IF assetEntries.shape = "string" THEN {<<assetEntries.s, heap[parsed[1]]>>}
  ELSE {<<assetEntries.items[i].s, heap[parsed[i]]>> :
          i \in {j \in DOMAIN assetEntries.items : assetEntries.items[j].type = "string"}}

\* C19 as stated: a string is emitted as a literal path only if it is
\* absolute, has no wildcard and is no directory; every other string,
\* absolute ones with a wildcard included, is emitted as a glob descriptor.
C19_LiteralOnlyWithoutExpansion ==
  \A spec \in StringSpecs :
    IF Absolute(spec[1]) /\ NoWildcard(spec[1]) /\ ~ResolvesToDirectory(baseDir, spec[1])
    THEN spec[2].from.kind = "string"
    ELSE spec[2].from.kind = "glob" /\ spec[2].from.dot

\* C19 as amended: a string is emitted as a literal path exactly when it is
\* an absolute path, with a wildcard or without, a directory or not; every
\* string that is not absolute is emitted as a glob descriptor.
C19_LiteralExactlyWhenAbsolute ==
  \A spec \in StringSpecs :
    IF Absolute(spec[1])
    THEN spec[2] = LiteralPath(spec[1], baseDir)
    ELSE spec[2].from.kind = "glob" /\ spec[2].from.dot /\ spec[2].context = <<baseDir>>

C19_Witness ==
  /\ apc = "done"
  /\ assetError = "none"
  /\ assetEntries = ArrayOf(<<StringEntry(<<"/", "*">>), StringEntry(<<"a">>)>>)
  /\ baseDir = <<"/">>
  /\ Len(parsed) = 2
  /\ heap[parsed[1]] = LiteralPath(<<"/", "*">>, <<"/">>)
  /\ heap[parsed[2]] = GlobDescriptor(<<"a", "/", "*", "*", "/", "*">>, <<"/">>)

\* The object entries of the call: position and caller's object.
ObjectSpecs ==
  IF apc # "done" \/ assetEntries.shape # "array" THEN {}
  ELSE {i \in DOMAIN assetEntries.items : assetEntries.items[i].type = "object"}

CallersObject(i) == callerHeap[assetEntries.items[i].ref]

\* What a plain string is emitted as.
AsPlainString(str) == ParseString(<<>>, baseDir, str).heap[1].from

Unmutated == \A r \in DOMAIN callerHeap : heap[r] = callerHeap[r]

InvalidEntry(i) ==
  \/ assetEntries.items[i].type = "other"
  \/ assetEntries.items[i].type = "object" /\ CallersObject(i).from.kind \in {"absent", "null"}

RaisesOnInvalid ==
  apc = "done" /\ assetEntries.shape = "array"
  /\ (\E i \in DOMAIN assetEntries.items : InvalidEntry(i))
  => assetError = "Error" /\ parsed = <<>>

EmittedFrom(i) ==
  IF CallersObject(i).from.kind = "string"
  THEN heap[parsed[i]].from = AsPlainString(CallersObject(i).from.s)
  ELSE heap[parsed[i]].from = CallersObject(i).from

C25_CompletionCalledExactlyOnce ==
  \A i \in Invocations : Finished(i) => Len(inv[i].calls) = 1

\* C26: every configuration of the returned list has an entry; in a dll pass
\* an app that is no vendor-bundle producer adds no empty object to it.
C26_NoEmptyConfigurationReturned ==
  \A j \in DOMAIN webpackConfigs : webpackConfigs[j].config # "empty"

(***************************************************************************)
(* Builder and merger claims                                               *)
(***************************************************************************)

Merged == dllReturn.kind = "merged"

\* The user's fragment: what the webpackConfig file exports, if one is named.
UserCustom ==
  IF dllArgs.appConfig.webpackConfig THEN dllArgs.custom ELSE EmptyConfiguration

\* C21: the fragments are merged in the order common, styles, vendor bundle,
\* user-custom: the plugins stand in that order, and a scalar key that the
\* user's fragment sets has the user's value in the result, whichever
\* earlier fragment sets it too.
C21_CustomFragmentHasFinalSay ==
  Merged =>
    /\ dllReturn.config.plugins =
         dllArgs.common.plugins \o dllArgs.styles.plugins \o dllPartial[1].plugins
           \o UserCustom.plugins
    /\ UserCustom.devtool # <<>> => dllReturn.config.devtool = UserCustom.devtool
    /\ UserCustom.publicPath # <<>> => dllReturn.config.publicPath = UserCustom.publicPath

C21_Witness ==
  /\ Merged
  /\ dllArgs.appConfig.webpackConfig
  /\ dllArgs.common.devtool = <<"common">>
  /\ dllArgs.custom.devtool = <<"custom">>
  /\ dllArgs.custom.publicPath = <<"/custom/">>
  /\ dllPartial[1].publicPath = <<"/app/">>
  /\ dllReturn.config.devtool = <<"custom">>
  /\ dllReturn.config.publicPath = <<"/custom/">>

\* The entry of the merge, before lines 42-44.
MergedEntry ==
  webpackMerge(<<dllArgs.common, dllArgs.styles, dllPartial[1], UserCustom>>).entry

HasNoEntryPoints(entry) ==
  entry.kind \in {"absent", "null"} \/ (entry.kind = "map" /\ entry.map = <<>>)

\* C22: when the merge has no entry points, its entry absent, falsy or an
\* empty map, the returned entry is the no-op function; the returned
\* configuration never has an empty map or no entry.
C22_EmptyEntryBecomesNoOpFunction ==
  Merged =>
    /\ ~HasNoEntryPoints(dllReturn.config.entry)
    /\ IF HasNoEntryPoints(MergedEntry)
       THEN dllReturn.config.entry = NoOpEntry
       ELSE dllReturn.config.entry = MergedEntry

C22_Witness ==
  /\ Merged
  /\ dllArgs.appConfig.webpackConfig
  /\ dllArgs.custom.entry = NullEntry
  /\ HasNoEntryPoints(MergedEntry)
  /\ dllReturn.config.entry = NoOpEntry

\* The vendor-bundle builder has been called: the project is an app and a
\* vendor-bundle producer.
BuilderCalled ==
  dpc = "done" /\ dllArgs.appConfig.isDll /\ dllArgs.appConfig.projectType = "app"

\* What the parsed dll result names, as a set.
NamedEntries ==
  LET a == dllArgs.appConfig
  IN IF a.dlls /\ a.dllParsedResult # <<>>
     THEN LET r == a.dllParsedResult[1]
          IN {r.tsEntries[i] : i \in DOMAIN r.tsEntries}
             \cup {r.scriptEntries[i] : i \in DOMAIN r.scriptEntries}
             \cup {r.styleEntries[i] : i \in DOMAIN r.styleEntries}
     ELSE {}

DuplicateFree(list) == \A i, j \in DOMAIN list : list[i] = list[j] => i = j

\* C24: the builder reports a missing output path as InvalidConfigError, a
\* declared dll list without its parsed result as InternalError and an empty
\* entry list as InvalidConfigError, the checks being made in this order; an
\* error leaves no fragment and no configuration; on success the one entry
\* point is keyed by the vendor chunk name, 'vendor' by default, and lists
\* each named entry once.
C24_BuilderErrorsByCause ==
  LET a == dllArgs.appConfig
  IN BuilderCalled =>
       /\ ~a.outputPath => dllError = [error |-> "InvalidConfigError", at |-> "outputPath"]
       /\ a.outputPath /\ a.dlls /\ a.dllParsedResult = <<>> =>
            dllError = [error |-> "InternalError", at |-> "_dllParsedResult"]
       /\ a.outputPath /\ ~(a.dlls /\ a.dllParsedResult = <<>>) /\ NamedEntries = {} =>
            dllError = [error |-> "InvalidConfigError", at |-> "no entry"]
       /\ dllError.error # "none" => dllPartial = <<>> /\ dllReturn.kind = "none"
       /\ dllError.error = "none" =>
            /\ a.outputPath /\ NamedEntries # {}
            /\ Len(dllPartial) = 1
            /\ dllPartial[1].entry.kind = "map"
            /\ Len(dllPartial[1].entry.map) = 1
            /\ dllPartial[1].entry.map[1].key =
                 (IF a.vendorChunkName = "" THEN "vendor" ELSE a.vendorChunkName)
            /\ DuplicateFree(dllPartial[1].entry.map[1].values)
            /\ {dllPartial[1].entry.map[1].values[i] :
                  i \in DOMAIN dllPartial[1].entry.map[1].values} = NamedEntries

C24_Witness ==
  /\ BuilderCalled
  /\ dllError.error = "none"
  /\ dllArgs.appConfig.vendorChunkName = ""
  /\ dllArgs.appConfig.dllParsedResult =
       <<[tsEntries |-> <<"t", "t">>, scriptEntries |-> <<"t", "s">>,
          styleEntries |-> <<"s">>]>>
  /\ dllPartial[1].entry = MapEntry(<<[key |-> "vendor", values |-> <<"t", "s">>]>>)

MainWebBuild ==
  /\ stylesArgs.projectType = "app"
  /\ stylesArgs.platformTarget = "web"
  /\ ~stylesArgs.dll
  /\ ~stylesArgs.test

GlobalStyleKeys == {stylesArgs.styles[i].entry : i \in DOMAIN stylesArgs.styles}

EntryKeys == {stylesReturn.entry.map[i].key : i \in DOMAIN stylesReturn.entry.map}

SuppressedChunks ==
  UNION { {stylesReturn.plugins[i].chunks[k] : k \in DOMAIN stylesReturn.plugins[i].chunks} :
            i \in {j \in DOMAIN stylesReturn.plugins :
                     stylesReturn.plugins[j].name = "SuppressEntryChunksWebpackPlugin"} }

OutsideMainWebBuildNothing ==
  spc = "done" /\ ~MainWebBuild =>
    stylesReturn.entry = MapEntry(<<>>) /\ stylesReturn.plugins = <<>>

\* C23 as stated: outside the main web build of an app the fragment has no
\* entry points and no plugins; in the main web build with global styles the
\* entry points are the global style entries and the suppressed chunks are
\* exactly their keys.
C23_StylesOnlyInMainWebBuild ==
  /\ OutsideMainWebBuildNothing
  /\ spc = "done" /\ MainWebBuild /\ stylesArgs.styles # <<>> =>
       /\ EntryKeys = GlobalStyleKeys
       /\ SuppressedChunks = GlobalStyleKeys

\* C23 as amended: the same, the two plugins being added, and the chunks
\* suppressed, only when the project extracts its css; without extraction
\* the main web build gets the entry points and no plugin.
C23_StylesOnlyInMainWebBuildPluginsWithExtractCss ==
  /\ OutsideMainWebBuildNothing
  /\ spc = "done" /\ MainWebBuild =>
       /\ EntryKeys = GlobalStyleKeys
       /\ IF stylesArgs.extractCss
          THEN /\ Len(stylesReturn.plugins) = 2
               /\ stylesReturn.plugins[1].name = "ExtractTextPlugin"
               /\ stylesReturn.plugins[2].name = "SuppressEntryChunksWebpackPlugin"
               /\ SuppressedChunks = GlobalStyleKeys
          ELSE stylesReturn.plugins = <<>>

C23_Witness ==
  /\ spc = "done"
  /\ MainWebBuild
  /\ stylesArgs.extractCss
  /\ stylesArgs.styles = <<[entry |-> "styles", path |-> "a.css"],
                           [entry |-> "theme", path |-> "t.css"]>>
  /\ stylesReturn.entry =
       MapEntry(<<[key |-> "styles", values |-> <<"a.css">>],
                  [key |-> "theme", values |-> <<"t.css">>]>>)
  /\ SuppressedChunks = {"styles", "theme"}

====
